---- MODULE Spec2Model ----
(***************************************************************************)
(* Gesture-driven particle animation: the React component App (App.tsx),   *)
(* its effect, camera/classifier loop and animation loop, and the          *)
(* Experience class (particle registry, target policy, smoothing).         *)
(*                                                                         *)
(* Numbers are fixed point: lengths, scales and landmark coordinates in    *)
(* thousandths (1000 = 1.0), angles in milliradians, time in milliseconds. *)
(***************************************************************************)
EXTENDS Integers, Sequences, FiniteSets, TLC

(* ---------------------------------------------------------------------- *)
(* Bounds of the model                                                     *)
(* ---------------------------------------------------------------------- *)

\* number of ORNAMENT ('PARTICLE') particles; 1500 in the program
PARTICLE_COUNT == 2
\* number of DUST particles; 2500 in the program
DUST_COUNT == 1
\* effect runs (mount included) after which no further re-run is modelled
MaxEffects == 2
\* animation frames (animate callbacks) per Experience in Spec
MaxTicks == 1
\* Experience.update calls in SpecExperience
MaxUpdates == 3
\* photos uploaded by the user per Experience
MaxUploads == 1
\* animation frames one animate loop runs for in SpecSmoothing
MaxFrames == 200
\* animation frames after which the clock reading starts over in SpecLive
ClockFrames == 2
\* largest value of PARTICLE_COUNT and of DUST_COUNT among the builds of
\* SpecConfig
MaxCount == 2
\* cap of activePhotoIndex: one past the largest photo count, so that
\* activePhotoIndex % photos.length wraps
MaxPhotoIndex == 1 + MaxUploads

(* ---------------------------------------------------------------------- *)
(* Constants of the program                                                *)
(* ---------------------------------------------------------------------- *)

GESTURE_THRESHOLDS == [PINCH |-> 50, FIST |-> 250, OPEN |-> 400]

TREE == "TREE"
SCATTER == "SCATTER"
FOCUS == "FOCUS"
AppMode == {TREE, SCATTER, FOCUS}

\* milliseconds between two animation frames (clock.getElapsedTime advance)
FrameMs == 16

(* ---------------------------------------------------------------------- *)
(* Fixed-point arithmetic                                                  *)
(* ---------------------------------------------------------------------- *)

\* a / b rounded toward zero
Quot(a, b) == IF a < 0 THEN -((-a) \div b) ELSE a \div b

\* product of two thousandths, in thousandths
Mul(a, b) == Quot(a * b, 1000)

PI == 3142

\* Math.sin of an angle in milliradians, in thousandths (Bhaskara's
\* rational approximation on [0, pi], odd and 2*pi-periodic elsewhere)
SinHalf(x) == LET p == x * (PI - x)
              IN  (160 * p) \div ((5 * PI * PI - 4 * p) \div 100)
Sin(a) == LET r == a % (2 * PI)
          IN  IF r <= PI THEN SinHalf(r) ELSE -SinHalf(r - PI)
Cos(a) == Sin(a + PI \div 2)

\* THREE.MathUtils.lerp / Vector3.lerp on one component: x += (y - x) * alpha
Lerp(x, y, alpha) == x + Mul(y - x, alpha)
Lerp3(v, w, alpha) == <<Lerp(v[1], w[1], alpha), Lerp(v[2], w[2], alpha), Lerp(v[3], w[3], alpha)>>

(* ---------------------------------------------------------------------- *)
(* Experience: particle registry                                           *)
(* ---------------------------------------------------------------------- *)

Zero3 == <<0, 0, 0>>
One3 == <<1000, 1000, 1000>>

\* Math.random() draws of createParticles: velocity and rotationSpeed
Velocities == {<<500, -500, 0>>}
RotationSpeeds == {<<10, 20, 30>>}
\* Math.random() draws of createDust: (Math.random() - 0.5) * 60 per axis
DustStarts == {<<-12000, -29950, 7000>>, <<3000, -30000, -5000>>, <<0, 29990, 0>>}
\* the draw Spec gives every Experience it builds
DustStart == {<<-12000, -29950, 7000>>}

\* one entry of createParticles' loop
Ornament(vel, spin) ==
  [ type |-> "PARTICLE",
    position |-> Zero3, rotation |-> Zero3, scale |-> One3,
    targetPosition |-> Zero3, targetRotation |-> Zero3, targetScale |-> One3,
    velocity |-> vel, rotationSpeed |-> spin ]

\* the entry addPhoto pushes
Photo ==
  [ type |-> "PHOTO",
    position |-> Zero3, rotation |-> Zero3, scale |-> One3,
    targetPosition |-> Zero3, targetRotation |-> Zero3, targetScale |-> One3,
    velocity |-> Zero3, rotationSpeed |-> Zero3 ]

\* one entry of createDust's loop
Dust(pos) ==
  [ type |-> "DUST",
    position |-> pos, rotation |-> Zero3, scale |-> One3,
    targetPosition |-> pos, targetRotation |-> Zero3, targetScale |-> One3,
    velocity |-> <<0, -10, 0>>, rotationSpeed |-> Zero3 ]

createParticles == { f \in [1..PARTICLE_COUNT -> Velocities \X RotationSpeeds] : TRUE }
createDust(starts) == { [i \in 1..DUST_COUNT |-> d] : d \in starts }

\* addPhoto with unshift for push
addPhotoFirst(ps) == <<Photo>> \o ps

\* this.particles.push(PHOTO entry)
addPhoto(ps) == Append(ps, Photo)

\* the registries `new Experience(container)` can build: createParticles(),
\* createPhotoWall() (one addPhoto), createDust(), in this order
NewParticles(starts) ==
  { addPhoto([i \in 1..PARTICLE_COUNT |-> Ornament(o[i][1], o[i][2])])
      \o [i \in 1..DUST_COUNT |-> Dust(d[i])] : o \in createParticles, d \in createDust(starts) }

\* this.particles.filter(p => p.type === 'PHOTO'), as registry positions
Photos(ps) == SelectSeq([i \in 1..Len(ps) |-> i], LAMBDA i : ps[i].type = "PHOTO")
CountOf(ps, kind) == Cardinality({i \in 1..Len(ps) : ps[i].type = kind})

\* photos.indexOf(p) for the particle at registry position i (0-based result)
IndexOf(ps, i) == Cardinality({j \in 1..(i - 1) : ps[j].type = "PHOTO"})

\* ActivePhoto without the `% photos.length`
ActivePhotoNoModulo(ps, activePhotoIndex) ==
  LET photos == Photos(ps)
  IN  IF activePhotoIndex + 1 \in DOMAIN photos THEN photos[activePhotoIndex + 1] ELSE 0

\* photos[state.activePhotoIndex % photos.length]: registry position of the
\* active photo, 0 when photos is empty (undefined in the program)
ActivePhoto(ps, activePhotoIndex) ==
  LET photos == Photos(ps)
  IN  IF Len(photos) = 0 THEN 0 ELSE photos[(activePhotoIndex % Len(photos)) + 1]

(* ---------------------------------------------------------------------- *)
(* Experience.update: target policy and smoothing                          *)
(* ---------------------------------------------------------------------- *)

\* per-tick blend factor of position, scale and orientation (0.05)
ALPHA == 50
\* per-tick fall of a DUST particle (0.05) and its wrap bounds (-30, 30)
DustStep == 50
DustLow == -30000
DustHigh == 30000

\* const t = i / PARTICLE_COUNT, i the 0-based registry index
Rank(i) == ((i - 1) * 1000) \div PARTICLE_COUNT

\* UpdateDust with `<=` for `<` in the wrap test
UpdateDustInclusive(p) ==
  LET y == p.position[2] - DustStep
  IN  [p EXCEPT !.position[2] = IF y <= DustLow THEN DustHigh ELSE y]

\* DUST branch: position.y -= 0.05; if (position.y < -30) position.y = 30
UpdateDust(p) ==
  LET y == p.position[2] - DustStep
  IN  [p EXCEPT !.position[2] = IF y < DustLow THEN DustHigh ELSE y]

\* TreeTarget with the cone upside down: radius = maxRadius * t
TreeTargetInverted(ps, i, time) ==
  LET p == ps[i]
      t == Rank(i)
  IN  IF p.type = "PARTICLE"
      THEN LET maxRadius == 12
               height == 25
               radius == maxRadius * t
               angle == Quot(t * 50 * PI, 1000) + Quot(time, 5)
           IN  [p EXCEPT !.targetPosition = <<Mul(Cos(angle), radius), t * height - 10000, Mul(Sin(angle), radius)>>,
                         !.targetRotation = <<0, angle, 0>>,
                         !.targetScale = One3]
      ELSE LET idx == IndexOf(ps, i)
               angle == Quot(idx * 2 * PI, Len(Photos(ps))) + Quot(time, 10)
               radius == 15000
           IN  [p EXCEPT !.targetPosition = <<Mul(Cos(angle), radius), 5000, Mul(Sin(angle), radius)>>,
                         !.targetRotation = <<0, -angle, 0>>,
                         !.targetScale = One3]

\* TREE branch: the targets set for particle p at registry position i
TreeTarget(ps, i, time) ==
  LET p == ps[i]
      t == Rank(i)
  IN  IF p.type = "PARTICLE"
      THEN LET maxRadius == 12
               height == 25
               radius == maxRadius * (1000 - t)
               angle == Quot(t * 50 * PI, 1000) + Quot(time, 5)
           IN  [p EXCEPT !.targetPosition = <<Mul(Cos(angle), radius), t * height - 10000, Mul(Sin(angle), radius)>>,
                         !.targetRotation = <<0, angle, 0>>,
                         !.targetScale = One3]
      ELSE LET idx == IndexOf(ps, i)
               angle == Quot(idx * 2 * PI, Len(Photos(ps))) + Quot(time, 10)
               radius == 15000
           IN  [p EXCEPT !.targetPosition = <<Mul(Cos(angle), radius), 5000, Mul(Sin(angle), radius)>>,
                         !.targetRotation = <<0, -angle, 0>>,
                         !.targetScale = One3]

\* SCATTER branch, with the ornament's self rotation
ScatterTarget(ps, i, time) ==
  LET p == ps[i]
      t == Rank(i)
  IN  IF p.type = "PARTICLE"
      THEN LET angle == Quot(t * 2 * PI, 1000) + Quot(time, 10)
               r == 15000 + Sin(time + t * 10) * 5
           IN  [p EXCEPT !.targetPosition = <<Mul(Cos(angle), r), Sin(Quot(time, 2) + t * 5) * 10, Mul(Sin(angle), r)>>,
                         !.rotation = <<p.rotation[1] + p.rotationSpeed[1], p.rotation[2] + p.rotationSpeed[2], p.rotation[3]>>,
                         !.targetScale = One3]
      ELSE LET idx == IndexOf(ps, i)
               angle == Quot(idx * 2 * PI, Len(Photos(ps))) - Quot(time, 20)
           IN  [p EXCEPT !.targetPosition = <<Mul(Cos(angle), 20000), Sin(idx * 1000) * 10, Mul(Sin(angle), 20000)>>,
                         !.targetRotation = <<0, time, 0>>,
                         !.targetScale = One3]

\* FOCUS branch: p === activePhoto, else the background scatter
FocusTarget(ps, i, activePhoto) ==
  LET p == ps[i]
      t == Rank(i)
  IN  IF i = activePhoto
      THEN [p EXCEPT !.targetPosition = <<0, 2000, 35000>>,
                     !.targetRotation = Zero3,
                     !.targetScale = <<4500, 4500, 4500>>]
      ELSE LET angle == Quot(t * 2 * PI, 1000)
           IN  [p EXCEPT !.targetPosition = <<Cos(angle) * 40, (t - 500) * 60, Sin(angle) * 40>>,
                         !.targetScale = <<500, 500, 500>>]

\* the mode branch of the forEach body
SetTarget(ps, i, st, time, activePhoto) ==
  IF st.mode = TREE THEN TreeTarget(ps, i, time)
  ELSE IF st.mode = SCATTER THEN ScatterTarget(ps, i, time)
  ELSE IF st.mode = FOCUS THEN FocusTarget(ps, i, activePhoto)
  ELSE ps[i]

\* Smooth that puts a position or scale component onto its target once it
\* is within 0.1 of it
SmoothSnap(p, st) ==
  LET Snap(x, y) == IF x - y < 100 /\ y - x < 100 THEN y ELSE Lerp(x, y, ALPHA)
      Snap3(v, w) == <<Snap(v[1], w[1]), Snap(v[2], w[2]), Snap(v[3], w[3])>>
  IN  [p EXCEPT !.position = Snap3(p.position, p.targetPosition),
                !.scale = Snap3(p.scale, p.targetScale),
                !.rotation = IF st.mode # SCATTER \/ p.type = "PHOTO"
                             THEN Lerp3(p.rotation, p.targetRotation, ALPHA)
                             ELSE p.rotation]

\* Smooth with a blend factor of 1.05 for 0.05
SmoothOvershoot(p, st) ==
  [p EXCEPT !.position = Lerp3(p.position, p.targetPosition, 1000 + ALPHA),
            !.scale = Lerp3(p.scale, p.targetScale, 1000 + ALPHA),
            !.rotation = IF st.mode # SCATTER \/ p.type = "PHOTO"
                         THEN Lerp3(p.rotation, p.targetRotation, 1000 + ALPHA)
                         ELSE p.rotation]

\* "Smooth transition": position and scale lerp; the quaternion slerp toward
\* targetRotation is taken per Euler angle, which is what slerp does for the
\* single-axis rotations the targets are
Smooth(p, st) ==
  [p EXCEPT !.position = Lerp3(p.position, p.targetPosition, ALPHA),
            !.scale = Lerp3(p.scale, p.targetScale, ALPHA),
            !.rotation = IF st.mode # SCATTER \/ p.type = "PHOTO"
                         THEN Lerp3(p.rotation, p.targetRotation, ALPHA)
                         ELSE p.rotation]

\* the body of this.particles.forEach((p, i) => ...): the mode branch sets
\* the targets of p, then the smoothing moves that same p
UpdateParticle(ps, i, st, time, activePhoto) ==
  IF ps[i].type = "DUST" THEN UpdateDust(ps[i])
  ELSE CHOOSE q \in {Smooth(p, st) : p \in {SetTarget(ps, i, st, time, activePhoto)}} : TRUE

\* the particles after update(state) at clock reading `time`
UpdateParticles(ps, st, time) ==
  LET activePhoto == ActivePhoto(ps, st.activePhotoIndex)
  IN  [i \in 1..Len(ps) |-> UpdateParticle(ps, i, st, time, activePhoto)]

\* mainGroup.rotation after update(state): x and y lerp toward the hand
UpdateRotation(rot, st) ==
  [ x |-> Lerp(rot.x, Quot(Mul(st.handY, PI), 2), 100),
    y |-> Lerp(rot.y, Mul(st.handX, PI), 100) ]

(* ---------------------------------------------------------------------- *)
(* App: React state, effect, camera and classifier loop, animation loop    *)
(* ---------------------------------------------------------------------- *)

VARIABLES
  state,       \* the React state of App (useState)
  deps,        \* [state.mode, state.activePhotoIndex] of the last effect run
  particles,   \* experienceRef.current.particles
  time,        \* the reading clock.getElapsedTime() gives the next update
  rotation,    \* experienceRef.current.mainGroup.rotation (x, y)
  cameras,     \* how many startCamera() calls stand at each of CameraPcs
  loops,       \* one entry per animate loop with a pending animation frame
  results,     \* what the latest landmarker.detectForVideo call returned
  prev         \* ModeState of the `prev` the latest classifier updater got,
               \* as <<prev>>; <<>> before the first hand frame

vars == <<state, deps, particles, time, rotation, cameras, loops, results, prev>>

\* useState<State>({...})
InitialState ==
  [ mode |-> TREE, handX |-> 0, handY |-> 0,
    isPinching |-> FALSE, isFist |-> FALSE, isOpen |-> FALSE,
    activePhotoIndex |-> 0, loading |-> TRUE, uiHidden |-> FALSE ]

\* the fields of State that make up the spec's ModeState: what the
\* classifier writes and Experience.update reads
ModeState(st) ==
  [ mode |-> st.mode, handX |-> st.handX, handY |-> st.handY,
    activePhotoIndex |-> st.activePhotoIndex ]

\* results.landmarks empty or absent
NoHand == [hand |-> FALSE, pinchDist |-> 0, avgDist |-> 0, center |-> <<0, 0>>]

\* frames with a hand: pinchDist and avgDist are the Math.hypot values of
\* lines 62 and 65, center is landmarks[9] (x, y)
Gestures == {<<20, 500>>, <<20, 100>>, <<50, 100>>, <<50, 250>>, <<50, 400>>, <<50, 500>>}
Centers == {<<750, 250>>}
HandFrames ==
  { [hand |-> TRUE, pinchDist |-> g[1], avgDist |-> g[2], center |-> c] :
      g \in Gestures, c \in Centers }
\* videoRef.current.readyState < 2: detectForVideo is not called; also the
\* value of results before the first call
NotReady == [hand |-> FALSE, pinchDist |-> -1, avgDist |-> -1, center |-> <<0, 0>>]
Frames == HandFrames \cup {NoHand, NotReady}

\* where a startCamera() call can stand: in its awaits (getUserMedia, then
\* initHandLandmarker), running its processFrame loop, or ended in catch
CameraPcs == {"await", "processFrame", "failed"}
Move(cs, from, to) == [cs EXCEPT ![from] = @ - 1, ![to] = @ + 1]
Started(cs) == cs["await"] + cs["processFrame"] + cs["failed"]

\* how the awaits of startCamera end: both resolve, getUserMedia rejects,
\* or initHandLandmarker rejects
Outcomes == {"ok", "camera denied", "landmarker failed"}

\* Classify with the FIST and OPEN tests ahead of the PINCH test
ClassifyPinchLast(p, frame) ==
  LET pinch == frame.pinchDist < GESTURE_THRESHOLDS.PINCH
      nextMode ==
        IF frame.avgDist < GESTURE_THRESHOLDS.FIST THEN TREE
        ELSE IF frame.avgDist > GESTURE_THRESHOLDS.OPEN THEN SCATTER
        ELSE IF pinch THEN FOCUS
        ELSE p.mode
      nextPhotoIdx ==
        IF nextMode = FOCUS /\ p.mode # FOCUS THEN p.activePhotoIndex + 1 ELSE p.activePhotoIndex
  IN  [p EXCEPT !.handX = (frame.center[1] - 500) * 2, !.handY = (frame.center[2] - 500) * 2,
                !.mode = nextMode, !.activePhotoIndex = nextPhotoIdx]

\* Classify without the test `prev.mode !== AppMode.FOCUS`
ClassifyEveryPinch(p, frame) ==
  LET pinch == frame.pinchDist < GESTURE_THRESHOLDS.PINCH
      nextMode ==
        IF pinch THEN FOCUS
        ELSE IF frame.avgDist < GESTURE_THRESHOLDS.FIST THEN TREE
        ELSE IF frame.avgDist > GESTURE_THRESHOLDS.OPEN THEN SCATTER
        ELSE p.mode
      nextPhotoIdx == IF pinch THEN p.activePhotoIndex + 1 ELSE p.activePhotoIndex
  IN  [p EXCEPT !.handX = (frame.center[1] - 500) * 2, !.handY = (frame.center[2] - 500) * 2,
                !.mode = nextMode, !.activePhotoIndex = nextPhotoIdx]

\* Classify with `>=` for `>` in the OPEN test
ClassifyOpenInclusive(p, frame) ==
  LET pinch == frame.pinchDist < GESTURE_THRESHOLDS.PINCH
      nextMode ==
        IF pinch THEN (IF p.mode # FOCUS THEN FOCUS ELSE p.mode)
        ELSE IF frame.avgDist < GESTURE_THRESHOLDS.FIST THEN TREE
        ELSE IF frame.avgDist >= GESTURE_THRESHOLDS.OPEN THEN SCATTER
        ELSE p.mode
      nextPhotoIdx ==
        IF pinch /\ p.mode # FOCUS THEN p.activePhotoIndex + 1 ELSE p.activePhotoIndex
  IN  [p EXCEPT !.handX = (frame.center[1] - 500) * 2, !.handY = (frame.center[2] - 500) * 2,
                !.mode = nextMode, !.activePhotoIndex = nextPhotoIdx]

\* the updater of setState at lines 67-89
Classify(p, frame) ==
  LET handX == (frame.center[1] - 500) * 2
      handY == (frame.center[2] - 500) * 2
      pinch == frame.pinchDist < GESTURE_THRESHOLDS.PINCH
      nextMode ==
        IF pinch THEN (IF p.mode # FOCUS THEN FOCUS ELSE p.mode)
        ELSE IF frame.avgDist < GESTURE_THRESHOLDS.FIST THEN TREE
        ELSE IF frame.avgDist > GESTURE_THRESHOLDS.OPEN THEN SCATTER
        ELSE p.mode
      nextPhotoIdx ==
        IF pinch /\ p.mode # FOCUS THEN p.activePhotoIndex + 1 ELSE p.activePhotoIndex
  IN  [p EXCEPT !.handX = handX, !.handY = handY,
                !.mode = nextMode, !.activePhotoIndex = nextPhotoIdx]

\* setState(prev => ({ ...prev, loading: false }))
LoadingDone(p) == [p EXCEPT !.loading = FALSE]

\* ToggleUi spreading the state of the first render instead of prev
ToggleUiStale(p) == [InitialState EXCEPT !.loading = p.loading, !.uiHidden = ~p.uiHidden]

\* setState(prev => ({ ...prev, uiHidden: !prev.uiHidden }))
ToggleUi(p) == [p EXCEPT !.uiHidden = ~p.uiHidden]

Init ==
  /\ state = InitialState
  /\ deps = <<TREE, 0>>
  /\ particles \in NewParticles(DustStart)
  /\ time = 0
  /\ rotation = [x |-> 0, y |-> 0]
  /\ cameras = [pc \in CameraPcs |-> IF pc = "await" THEN 1 ELSE 0]
  /\ loops = <<[state |-> ModeState(InitialState), ran |-> FALSE]>>
  /\ results = NotReady
  /\ prev = <<>>

\* startCamera up to the start of its loop: the awaits resolve, loading
\* ends and processFrame starts, or one rejects and the catch handler ends
\* loading
startCamera(outcome) ==
  /\ cameras["await"] > 0
  /\ cameras' = Move(cameras, "await", IF outcome = "ok" THEN "processFrame" ELSE "failed")
  /\ state' = LoadingDone(state)
  /\ UNCHANGED <<deps, particles, time, rotation, loops, results, prev>>

\* processFrame without the test `results.landmarks.length > 0`
processFrameAnyResult(frame) ==
  /\ cameras["processFrame"] > 0
  /\ IF frame # NotReady
     THEN /\ Classify(state, frame).activePhotoIndex <= MaxPhotoIndex
          /\ state' = Classify(state, frame)
     ELSE UNCHANGED state
  /\ UNCHANGED <<deps, particles, time, rotation, cameras, loops>>

\* one run of processFrame of one of the running loops; frame is what
\* detectForVideo returns, or NotReady
processFrame(frame) ==
  /\ cameras["processFrame"] > 0
  /\ IF frame.hand
     THEN /\ Classify(state, frame).activePhotoIndex <= MaxPhotoIndex
          /\ state' = Classify(state, frame)
     ELSE UNCHANGED state
  /\ UNCHANGED <<deps, particles, time, rotation, cameras, loops>>

\* processFrame in Spec, where results and prev are not followed
processFrameApp(frame) ==
  /\ processFrame(frame)
  /\ UNCHANGED <<results, prev>>

\* processFrame in SpecClassifier, which follows results and prev
processFrameSeen(frame) ==
  /\ processFrame(frame)
  /\ results' = IF frame # NotReady THEN frame ELSE results
  /\ prev' = IF frame.hand THEN <<ModeState(state)>> ELSE prev

Keys == {"h", "H", "x"}

\* the keydown listener
handleKey(key) ==
  /\ state' = IF key \in {"h", "H"} THEN ToggleUi(state) ELSE state
  /\ UNCHANGED <<deps, particles, time, rotation, cameras, loops, results, prev>>

\* the texture of an uploaded file has loaded: experienceRef.current.addPhoto
handleFileUpload ==
  /\ CountOf(particles, "PHOTO") < 1 + MaxUploads
  /\ particles' = addPhoto(particles)
  /\ UNCHANGED <<state, deps, time, rotation, cameras, loops, results, prev>>

\* Experience.update(state) on experienceRef.current; the clock reads one
\* frame later at the next call
update(st) ==
  /\ particles' = UpdateParticles(particles, st, time)
  /\ rotation' = UpdateRotation(rotation, st)
  /\ time' = time + FrameMs

\* one animation frame of the l-th pending animate loop:
\* experienceRef.current.update(state) with the state its closure holds
animate(l) ==
  /\ l \in DOMAIN loops
  /\ time < MaxTicks * FrameMs
  /\ update(loops[l].state)
  /\ loops' = [loops EXCEPT ![l].ran = TRUE]
  /\ UNCHANGED <<state, deps, cameras, results, prev>>

\* cancelAnimationFrame(animId): animId is the request made at line 118, so
\* the loop of the effect being cleaned up stops only if it never ran
Cleanup(ls) ==
  IF Len(ls) > 0 /\ ~ls[Len(ls)].ran THEN SubSeq(ls, 1, Len(ls) - 1) ELSE ls

\* App re-renders with a changed dependency: cleanup of the last effect,
\* then the effect body (new Experience, startCamera, animate)
useEffect ==
  /\ deps # <<state.mode, state.activePhotoIndex>>
  /\ Started(cameras) < MaxEffects
  /\ deps' = <<state.mode, state.activePhotoIndex>>
  /\ particles' \in NewParticles(DustStart)
  /\ time' = 0
  /\ rotation' = [x |-> 0, y |-> 0]
  /\ cameras' = [cameras EXCEPT !["await"] = @ + 1]
  /\ loops' = Append(Cleanup(loops), [state |-> ModeState(state), ran |-> FALSE])
  /\ UNCHANGED <<state, results, prev>>

Next ==
  \/ \E outcome \in Outcomes : startCamera(outcome)
  \/ \E frame \in Frames : processFrameApp(frame)
  \/ \E key \in Keys : handleKey(key)
  \/ handleFileUpload
  \/ \E l \in DOMAIN loops : animate(l)
  \/ useEffect

Spec == Init /\ [][Next]_vars

(* ---------------------------------------------------------------------- *)
(* One Experience driven directly: update with any state, addPhoto         *)
(* ---------------------------------------------------------------------- *)

\* the states update is called with
UpdateInputs ==
  { [mode |-> m, handX |-> h[1], handY |-> h[2], activePhotoIndex |-> a] :
      m \in AppMode, h \in {<<500, -500>>}, a \in 0..MaxPhotoIndex }

ExperienceUpdate(st) ==
  /\ time < MaxUpdates * FrameMs
  /\ update(st)
  /\ UNCHANGED <<state, deps, cameras, loops, results, prev>>

ExperienceNext ==
  \/ \E st \in UpdateInputs : ExperienceUpdate(st)
  \/ handleFileUpload

InitExperience ==
  /\ state = InitialState
  /\ deps = <<TREE, 0>>
  /\ particles \in NewParticles(DustStarts)
  /\ time = 0
  /\ rotation = [x |-> 0, y |-> 0]
  /\ cameras = [pc \in CameraPcs |-> IF pc = "await" THEN 1 ELSE 0]
  /\ loops = <<[state |-> ModeState(InitialState), ran |-> FALSE]>>
  /\ results = NotReady
  /\ prev = <<>>

SpecExperience == InitExperience /\ [][ExperienceNext]_vars

(* ---------------------------------------------------------------------- *)
(* The component as mounted, before its effect re-runs: camera, classifier *)
(* loop, keyboard and animation loop, with results and prev followed       *)
(* ---------------------------------------------------------------------- *)

ClassifierNext ==
  \/ \E outcome \in Outcomes : startCamera(outcome)
  \/ \E frame \in Frames : processFrameSeen(frame)
  \/ \E key \in Keys : handleKey(key)
  \/ \E l \in DOMAIN loops : animate(l)

SpecClassifier == Init /\ [][ClassifierNext]_vars

(* ---------------------------------------------------------------------- *)
(* One effect run followed over many frames: the Experience it built and   *)
(* its animate loop, which calls update with the state its closure holds   *)
(* ---------------------------------------------------------------------- *)

\* animate followed for MaxFrames frames
animateOn(l) ==
  /\ l \in DOMAIN loops
  /\ time < MaxFrames * FrameMs
  /\ update(loops[l].state)
  /\ loops' = [loops EXCEPT ![l].ran = TRUE]
  /\ UNCHANGED <<state, deps, cameras, results, prev>>

SmoothingNext == \E l \in DOMAIN loops : animateOn(l)

\* the effect has just run for a state st: new Experience, startCamera
\* called, first animation frame requested
InitSmoothing ==
  \E st \in UpdateInputs :
    /\ state = [InitialState EXCEPT !.mode = st.mode, !.handX = st.handX, !.handY = st.handY,
                                    !.activePhotoIndex = st.activePhotoIndex]
    /\ deps = <<st.mode, st.activePhotoIndex>>
    /\ particles \in NewParticles(DustStarts)
    /\ time = 0
    /\ rotation = [x |-> 0, y |-> 0]
    /\ cameras = [pc \in CameraPcs |-> IF pc = "await" THEN 1 ELSE 0]
    /\ loops = <<[state |-> st, ran |-> FALSE]>>
    /\ results = NotReady
    /\ prev = <<>>

SpecSmoothing == InitSmoothing /\ [][SmoothingNext]_vars

(* ---------------------------------------------------------------------- *)
(* The component mounted by builds that differ in the constants            *)
(* PARTICLE_COUNT and DUST_COUNT, the non-positive values included; the    *)
(* render tick, which divides by PARTICLE_COUNT, is left out               *)
(* ---------------------------------------------------------------------- *)

\* the values the two constants have in the builds considered
Counts == (-1)..MaxCount

\* createParticles and createDust in a build with the given count: the
\* loop `for (let i = 0; i < count; i++)` has no iteration when count <= 0
createParticlesOf(count) == [1..count -> Velocities \X RotationSpeeds]
createDustOf(count, starts) == { [i \in 1..count |-> d] : d \in starts }

\* the registries `new Experience(container)` can build in a build with
\* PARTICLE_COUNT = particleCount and DUST_COUNT = dustCount
NewParticlesOf(particleCount, dustCount, starts) ==
  { addPhoto([i \in 1..particleCount |-> Ornament(o[i][1], o[i][2])])
      \o [i \in 1..dustCount |-> Dust(d[i])] :
      o \in createParticlesOf(particleCount), d \in createDustOf(dustCount, starts) }

InitConfig ==
  /\ state = InitialState
  /\ deps = <<TREE, 0>>
  /\ \E particleCount \in Counts, dustCount \in Counts :
       particles \in NewParticlesOf(particleCount, dustCount, DustStarts)
  /\ time = 0
  /\ rotation = [x |-> 0, y |-> 0]
  /\ cameras = [pc \in CameraPcs |-> IF pc = "await" THEN 1 ELSE 0]
  /\ loops = <<[state |-> ModeState(InitialState), ran |-> FALSE]>>
  /\ results = NotReady
  /\ prev = <<>>

ConfigNext ==
  \/ \E outcome \in Outcomes : startCamera(outcome)
  \/ \E frame \in Frames : processFrameApp(frame)
  \/ \E key \in Keys : handleKey(key)
  \/ handleFileUpload

SpecConfig == InitConfig /\ [][ConfigNext]_vars

(* ---------------------------------------------------------------------- *)
(* The mounted component when no hand is ever detected, run without end:   *)
(* the camera may fail, frames carry no hand, the animate loop goes on.    *)
(* The clock reading enters update only through sines and cosines; here it *)
(* starts over every ClockFrames frames, which keeps the states finite.    *)
(* ---------------------------------------------------------------------- *)

\* animate that calls update only while a processFrame loop is running
animateWhenTracking(l) ==
  /\ l \in DOMAIN loops
  /\ cameras["processFrame"] > 0
  /\ particles' = UpdateParticles(particles, loops[l].state, time)
  /\ rotation' = UpdateRotation(rotation, loops[l].state)
  /\ time' = (time + FrameMs) % (ClockFrames * FrameMs)
  /\ loops' = [loops EXCEPT ![l].ran = TRUE]
  /\ UNCHANGED <<state, deps, cameras, results, prev>>

\* one animation frame of the l-th animate loop, with no bound on how many
\* there are: update(state), then requestAnimationFrame(animate) again
animateLive(l) ==
  /\ l \in DOMAIN loops
  /\ particles' = UpdateParticles(particles, loops[l].state, time)
  /\ rotation' = UpdateRotation(rotation, loops[l].state)
  /\ time' = (time + FrameMs) % (ClockFrames * FrameMs)
  /\ loops' = [loops EXCEPT ![l].ran = TRUE]
  /\ UNCHANGED <<state, deps, cameras, results, prev>>

LiveNext ==
  \/ \E outcome \in Outcomes : startCamera(outcome)
  \/ \E frame \in Frames \ HandFrames : processFrameApp(frame)
  \/ \E key \in Keys : handleKey(key)
  \/ \E l \in DOMAIN loops : animateLive(l)

\* the browser runs every requested animation frame callback
SpecLive ==
  Init /\ [][LiveNext]_vars /\ WF_vars(\E l \in DOMAIN loops : animateLive(l))

(* ---------------------------------------------------------------------- *)
(* Properties of the classifier step (SpecClassifier)                      *)
(* ---------------------------------------------------------------------- *)

\* the latest detection was a hand frame with a pinch
PinchSeen == results.hand /\ results.pinchDist < GESTURE_THRESHOLDS.PINCH

\* C1: gesture priority. After a hand frame with pinchDistance below
\* PINCH_THRESHOLD the mode is FOCUS, whatever avgFingerSpread and the prior
\* mode were.
C1_PinchTakesPrecedence == PinchSeen => state.mode = FOCUS

\* a pinch with the fingers spread beyond OPEN_THRESHOLD arrived in SCATTER
\* mode, and the mode is FOCUS
C1_Witness ==
  /\ PinchSeen
  /\ results.avgDist > GESTURE_THRESHOLDS.OPEN
  /\ prev # <<>>
  /\ prev[1].mode = SCATTER
  /\ state.mode = FOCUS

\* C2: activePhotoIndex changes only in a classifier step from TREE or
\* SCATTER into FOCUS, and then by exactly 1; a pinch frame received in FOCUS
\* leaves mode and activePhotoIndex as they were.
C2_IndexChangesOnFocusEntry ==
  IF prev = <<>>
  THEN state.activePhotoIndex = 0
  ELSE /\ state.activePhotoIndex # prev[1].activePhotoIndex =>
            /\ prev[1].mode \in {TREE, SCATTER}
            /\ state.mode = FOCUS
            /\ state.activePhotoIndex = prev[1].activePhotoIndex + 1
       /\ PinchSeen /\ prev[1].mode = FOCUS =>
            /\ state.mode = FOCUS
            /\ state.activePhotoIndex = prev[1].activePhotoIndex

\* FOCUS was entered twice, and a further pinch arrived while in FOCUS
C2_Witness ==
  /\ prev # <<>>
  /\ prev[1].mode = FOCUS
  /\ PinchSeen
  /\ state.activePhotoIndex = 2

\* C3: a hand frame that is no pinch sets TREE when the spread is below
\* FIST_THRESHOLD, SCATTER when it is above OPEN_THRESHOLD, and keeps the
\* mode when the spread is in [FIST_THRESHOLD, OPEN_THRESHOLD]; it never
\* changes activePhotoIndex.
C3_FistOpenNone ==
  results.hand /\ results.pinchDist >= GESTURE_THRESHOLDS.PINCH /\ prev # <<>> =>
    /\ results.avgDist < GESTURE_THRESHOLDS.FIST => state.mode = TREE
    /\ results.avgDist > GESTURE_THRESHOLDS.OPEN => state.mode = SCATTER
    /\ ( /\ results.avgDist >= GESTURE_THRESHOLDS.FIST
         /\ results.avgDist <= GESTURE_THRESHOLDS.OPEN ) => state.mode = prev[1].mode
    /\ state.activePhotoIndex = prev[1].activePhotoIndex

\* a frame with the spread exactly at OPEN_THRESHOLD arrived in FOCUS mode
C3_Witness ==
  /\ results.hand
  /\ results.pinchDist = GESTURE_THRESHOLDS.PINCH
  /\ results.avgDist = GESTURE_THRESHOLDS.OPEN
  /\ prev # <<>>
  /\ prev[1].mode = FOCUS
  /\ state.mode = FOCUS

\* C4: a frame without a hand leaves ModeState unchanged; as long as no
\* hand frame has arrived, whatever render ticks and no-hand frames there
\* were, ModeState is the initial one (mode TREE).
C4_NoHandNoChange ==
  /\ [](prev = <<>> => ModeState(state) = ModeState(InitialState))
  /\ [][\A frame \in Frames \ HandFrames :
          processFrameSeen(frame) => ModeState(state') = ModeState(state)]_vars

\* a no-hand frame was processed and a render tick ran, and no hand frame
\* has arrived
C4_Witness ==
  /\ results = NoHand
  /\ prev = <<>>
  /\ time > 0
  /\ state.mode = TREE

(* ---------------------------------------------------------------------- *)
(* Properties of the effect and its loops (Spec)                           *)
(* ---------------------------------------------------------------------- *)

\* the effect has run for the mode and activePhotoIndex the state holds
EffectCurrent == deps = <<state.mode, state.activePhotoIndex>>

\* C5: every render tick works on the current mode. Once the effect has
\* re-run for the latest mode and activePhotoIndex, no animate callback calls
\* Experience.update with a state whose mode or activePhotoIndex differs from
\* them.
C5_UpdateSeesCurrentMode ==
  [][\A l \in DOMAIN loops :
       animate(l) /\ EffectCurrent =>
         /\ loops[l].state.mode = state.mode
         /\ loops[l].state.activePhotoIndex = state.activePhotoIndex]_vars

\* C6: a PHOTO particle once added is never removed: no step lowers the
\* number of PHOTO particles of the registry the render tick uses, and the
\* ORNAMENT and DUST counts stay at their startup values.
C6_PhotosNeverRemoved ==
  /\ [](CountOf(particles, "PARTICLE") = PARTICLE_COUNT /\ CountOf(particles, "DUST") = DUST_COUNT)
  /\ [][CountOf(particles', "PHOTO") >= CountOf(particles, "PHOTO")]_vars

(* ---------------------------------------------------------------------- *)
(* Properties of the Experience (SpecExperience)                           *)
(* ---------------------------------------------------------------------- *)

Dusts(ps) == {i \in DOMAIN ps : ps[i].type = "DUST"}
NonDusts(ps) == {i \in DOMAIN ps : ps[i].type # "DUST"}

\* C7: addPhoto raises the number of PHOTO particles by exactly 1, puts the
\* new particle at the end of the registry and leaves the index, order and
\* kind of every particle that was there unchanged.
C7_AddPhotoAppends ==
  [][handleFileUpload =>
       /\ CountOf(particles', "PHOTO") = CountOf(particles, "PHOTO") + 1
       /\ Len(particles') = Len(particles) + 1
       /\ particles'[Len(particles')].type = "PHOTO"
       /\ \A i \in DOMAIN particles : particles'[i] = particles[i]]_vars

\* a photo was appended behind the DUST particles after a render tick
C7_Witness ==
  /\ CountOf(particles, "PHOTO") = 2
  /\ particles[Len(particles)].type = "PHOTO"
  /\ particles[Len(particles) - 1].type = "DUST"
  /\ particles[1].position # Zero3

\* C8: DUST wrap. A DUST particle's vertical coordinate stays within
\* [-30, 30]; a render tick (in any mode) sets it to exactly 30 when the step
\* would take it below -30 and lowers it by exactly the step otherwise, and
\* changes nothing else of the particle.
C8_DustWraps ==
  /\ [](\A i \in Dusts(particles) :
          particles[i].position[2] >= -30000 /\ particles[i].position[2] <= 30000)
  /\ [][\A st \in UpdateInputs :
          ExperienceUpdate(st) =>
            \A i \in Dusts(particles) :
              LET y == particles[i].position[2]
              IN  particles'[i] =
                    [particles[i] EXCEPT !.position[2] =
                       IF y - DustStep < -30000 THEN 30000 ELSE y - DustStep]]_vars

\* a DUST particle stands at the upper bound after a wrap, its other
\* coordinates those it was created with
C8_Witness ==
  \E i \in Dusts(particles) :
    /\ particles[i].position[2] = 30000
    /\ particles[i].position[1] # 0
    /\ time > 0

\* the number of photos ahead of the particle at registry position i
Ordinal(ps, i) == Cardinality({j \in DOMAIN ps : j < i /\ ps[j].type = "PHOTO"})

\* the enlarged target of FOCUS mode
Enlarged(p) ==
  /\ p.targetPosition = <<0, 2000, 35000>>
  /\ p.targetRotation = Zero3
  /\ p.targetScale = <<4500, 4500, 4500>>

\* the generic scatter target of FOCUS mode for rank t (in thousandths)
GenericScatter(p, t) ==
  /\ p.targetPosition = <<Cos(Quot(t * 2 * PI, 1000)) * 40, (t - 500) * 60, Sin(Quot(t * 2 * PI, 1000)) * 40>>
  /\ p.targetScale = <<500, 500, 500>>

\* C9: a render tick in FOCUS mode with at least one photo gives the
\* enlarged target to exactly one particle, the PHOTO whose ordinal among
\* the photos is activePhotoIndex mod photoCount, and the generic scatter
\* target with scale 0.5 to every other ORNAMENT and PHOTO particle.
C9_OneActivePhoto ==
  [][\A st \in UpdateInputs :
       ExperienceUpdate(st) /\ st.mode = FOCUS /\ CountOf(particles, "PHOTO") >= 1 =>
         /\ Cardinality({i \in DOMAIN particles' : Enlarged(particles'[i])}) = 1
         /\ \A i \in NonDusts(particles) :
              IF /\ particles[i].type = "PHOTO"
                 /\ Ordinal(particles, i) = st.activePhotoIndex % CountOf(particles, "PHOTO")
              THEN Enlarged(particles'[i])
              ELSE GenericScatter(particles'[i], ((i - 1) * 1000) \div PARTICLE_COUNT)]_vars

\* the second of two photos holds the enlarged target, the first photo and
\* an ornament the shrunk one
C9_Witness ==
  /\ CountOf(particles, "PHOTO") = 2
  /\ Enlarged(particles[Len(particles)])
  /\ particles[PARTICLE_COUNT + 1].type = "PHOTO"
  /\ particles[PARTICLE_COUNT + 1].targetScale = <<500, 500, 500>>
  /\ particles[1].targetScale = <<500, 500, 500>>

\* C10: every particle's scale components stay within [0.5, 4.5], and every
\* target scale is 1, 4.5 or 0.5.
C10_ScaleBounded ==
  \A i \in DOMAIN particles :
    /\ \A k \in 1..3 : particles[i].scale[k] >= 500 /\ particles[i].scale[k] <= 4500
    /\ particles[i].targetScale \in {<<1000, 1000, 1000>>, <<4500, 4500, 4500>>, <<500, 500, 500>>}

\* a photo has grown toward 4.5 while an ornament has shrunk toward 0.5
C10_Witness ==
  /\ \E i \in DOMAIN particles : particles[i].type = "PHOTO" /\ particles[i].scale[1] > 1000
  /\ \E i \in DOMAIN particles : particles[i].type = "PARTICLE" /\ particles[i].scale[1] < 1000

\* the ORNAMENT particles
Ornaments(ps) == {i \in DOMAIN ps : ps[i].type = "PARTICLE"}

\* the target position tp lies on the circle of radius r around the
\* vertical axis, within 2 % of r squared (the sine and cosine are
\* approximations)
OnRadius(tp, r) ==
  LET d == tp[1] * tp[1] + tp[3] * tp[3]
  IN  d >= r * r - (r * r) \div 50 /\ d <= r * r + (r * r) \div 50

\* C14 as stated: a render tick in TREE mode gives every ORNAMENT with rank
\* t = index / ornamentCount a target of radius 12 (1 - t) and of vertical
\* coordinate 25 t - 12.5, so the heights lie in [-12.5, 12.5).
C14_TreeCentred ==
  [][\A st \in UpdateInputs :
       ExperienceUpdate(st) /\ st.mode = TREE =>
         \A i \in Ornaments(particles) :
           LET t == ((i - 1) * 1000) \div PARTICLE_COUNT
               tp == particles'[i].targetPosition
           IN  /\ OnRadius(tp, 12 * (1000 - t))
               /\ tp[2] = t * 25 - 12500
               /\ tp[2] >= -12500 /\ tp[2] < 12500]_vars

\* C14 amended: a render tick in TREE mode gives every ORNAMENT with rank
\* t = index / ornamentCount a target of radius 12 (1 - t) and of vertical
\* coordinate 25 t - 10, so the heights lie in [-10, 15).
C14_TreeHelix ==
  [][\A st \in UpdateInputs :
       ExperienceUpdate(st) /\ st.mode = TREE =>
         \A i \in Ornaments(particles) :
           LET t == ((i - 1) * 1000) \div PARTICLE_COUNT
               tp == particles'[i].targetPosition
           IN  /\ OnRadius(tp, 12 * (1000 - t))
               /\ tp[2] = t * 25 - 10000
               /\ tp[2] >= -10000 /\ tp[2] < 15000]_vars

\* after a TREE tick the first ornament's target is at the foot of the
\* tree, 12 from the axis, and the last ornament's target is higher up
C14_Witness ==
  /\ time > 0
  /\ particles[1].targetPosition[2] = -10000
  /\ OnRadius(particles[1].targetPosition, 12000)
  /\ particles[PARTICLE_COUNT].targetPosition[2] > 0
  /\ particles[PARTICLE_COUNT].targetPosition[2] < 15000
  /\ particles[PARTICLE_COUNT].targetRotation # Zero3

\* C19: the rank t of every ORNAMENT and PHOTO particle, photos appended
\* after startup included, lies in [0, 1], and a render tick in FOCUS mode
\* gives every particle that is not the active photo a target height
\* (t - 0.5) * 60 within [-30, 30].
C19_RankNormalized ==
  /\ [](\A i \in NonDusts(particles) : Rank(i) >= 0 /\ Rank(i) <= 1000)
  /\ [][\A st \in UpdateInputs :
          ExperienceUpdate(st) /\ st.mode = FOCUS =>
            \A i \in NonDusts(particles) :
              Enlarged(particles'[i]) \/
                /\ particles'[i].targetPosition[2] >= -30000
                /\ particles'[i].targetPosition[2] <= 30000]_vars

(* ---------------------------------------------------------------------- *)
(* Properties of construction (SpecConfig)                                 *)
(* ---------------------------------------------------------------------- *)

\* C15: construction fails with a ConfigurationError when PARTICLE_COUNT or
\* DUST_COUNT is not positive, and no Experience is created: whenever a
\* registry exists, it holds at least one ORNAMENT and at least one DUST
\* particle, which every build with positive counts creates.
C15_InvalidCountsFail ==
  /\ CountOf(particles, "PARTICLE") >= 1
  /\ CountOf(particles, "DUST") >= 1

(* ---------------------------------------------------------------------- *)
(* Properties of the smoothing over many frames (SpecSmoothing)            *)
(* ---------------------------------------------------------------------- *)

\* |x - y|
Gap(x, y) == IF x < y THEN y - x ELSE x - y

\* particle i is not DUST and the tick leaves its position and scale
\* targets as they were
TargetHeld(i) ==
  /\ particles[i].type # "DUST"
  /\ particles'[i].targetPosition = particles[i].targetPosition
  /\ particles'[i].targetScale = particles[i].targetScale

\* from v to w no component passes to the other side of its target in tgt,
\* moves away from it, or lands on it from elsewhere
Approaches(v, w, tgt) ==
  \A k \in 1..3 :
    /\ v[k] <= tgt[k] => v[k] <= w[k] /\ w[k] <= tgt[k]
    /\ v[k] >= tgt[k] => v[k] >= w[k] /\ w[k] >= tgt[k]
    /\ v[k] # tgt[k] => w[k] # tgt[k]

\* C11 as stated: a tick with the target held strictly reduces the distance
\* of position and of scale from the target while it is non-zero (given
\* that no component moves away, the distance shrinks exactly when a
\* component's gap does), never overshoots and never lands on the target.
C11_StrictlyCloser ==
  [][\A i \in DOMAIN particles :
       TargetHeld(i) =>
         /\ Approaches(particles[i].position, particles'[i].position, particles[i].targetPosition)
         /\ Approaches(particles[i].scale, particles'[i].scale, particles[i].targetScale)
         /\ particles[i].position # particles[i].targetPosition =>
              particles'[i].position # particles[i].position
         /\ particles[i].scale # particles[i].targetScale =>
              particles'[i].scale # particles[i].scale]_vars

\* C11 amended: a tick with the target held takes every position and scale
\* component's gap to the target to (1 - alpha) of it, up to one unit of
\* the arithmetic's resolution (so the gap shrinks strictly while alpha
\* times it is at least one unit, and stays as it is below that), never
\* overshoots and never lands on the target.
C11_SmoothingConverges ==
  [][\A i \in DOMAIN particles :
       TargetHeld(i) =>
         /\ Approaches(particles[i].position, particles'[i].position, particles[i].targetPosition)
         /\ Approaches(particles[i].scale, particles'[i].scale, particles[i].targetScale)
         /\ \A k \in 1..3 :
              LET gp == Gap(particles[i].position[k], particles[i].targetPosition[k])
                  gp2 == Gap(particles'[i].position[k], particles[i].targetPosition[k])
                  gs == Gap(particles[i].scale[k], particles[i].targetScale[k])
                  gs2 == Gap(particles'[i].scale[k], particles[i].targetScale[k])
              IN  /\ 1000 * gp2 >= (1000 - ALPHA) * gp
                  /\ 1000 * gp2 < (1000 - ALPHA) * gp + 1000
                  /\ 1000 * gs2 >= (1000 - ALPHA) * gs
                  /\ 1000 * gs2 < (1000 - ALPHA) * gs + 1000]_vars

\* after many FOCUS frames the active photo's scale is within 0.02 of its
\* target 4.5 without being on it, and its position is still on the way
C11_Witness ==
  /\ loops[1].state.mode = FOCUS
  /\ time > FrameMs
  /\ \E i \in DOMAIN particles :
       /\ Enlarged(particles[i])
       /\ particles[i].scale[1] < 4500
       /\ particles[i].scale[1] > 4480
       /\ particles[i].position[3] < 35000
       /\ particles[i].position[3] > 0

(* ---------------------------------------------------------------------- *)
(* Properties of the animation loop without a hand (SpecLive)              *)
(* ---------------------------------------------------------------------- *)

\* C12: the animation never freezes. With animation frame callbacks
\* scheduled fairly, Experience.update is invoked again and again without
\* end in every execution in which no hand is detected, whether the camera
\* and the landmarker start or fail, and mode and activePhotoIndex stay as
\* they were.
C12_AnimationNeverFreezes ==
  /\ []<><<\E l \in DOMAIN loops : animateLive(l)>>_vars
  /\ [][state'.mode = state.mode /\ state'.activePhotoIndex = state.activePhotoIndex]_vars

\* the camera or the landmarker has failed, loading has ended, and update
\* has run often enough since the mount for a DUST particle to wrap
C12_Witness ==
  /\ cameras["failed"] = 1
  /\ ~state.loading
  /\ state.mode = TREE
  /\ loops[1].ran
  /\ \E i \in Dusts(particles) : particles[i].position[2] = DustHigh

(* ---------------------------------------------------------------------- *)
(* Properties of the whole component (Spec)                                *)
(* ---------------------------------------------------------------------- *)

\* a step changes mode or activePhotoIndex
ModeChanges ==
  state'.mode # state.mode \/ state'.activePhotoIndex # state.activePhotoIndex

\* C13: mode and activePhotoIndex change only in a classifier step on a
\* frame with a hand: a step that changes either is a processFrame step on
\* a hand frame, and is not the end of loading (awaits resolved or camera
\* failure), the key handler, a photo upload or an effect re-run, nor a
\* render tick (which would move the clock, the particles or the root
\* rotation).
C13_OnlyClassifierChangesMode ==
  [][ModeChanges =>
       /\ \E frame \in HandFrames : processFrameApp(frame)
       /\ \A outcome \in Outcomes : ~startCamera(outcome)
       /\ \A key \in Keys : ~handleKey(key)
       /\ ~handleFileUpload
       /\ ~useEffect
       /\ time' = time /\ particles' = particles /\ rotation' = rotation]_vars

\* FOCUS was entered, and then the effect re-ran, its camera failed, the UI
\* was hidden, a photo was uploaded and a render tick ran: the mode is
\* still FOCUS and activePhotoIndex still 1
C13_Witness ==
  /\ state.mode = FOCUS
  /\ state.activePhotoIndex = 1
  /\ deps = <<FOCUS, 1>>
  /\ cameras["failed"] >= 1
  /\ cameras["await"] = 0
  /\ ~state.loading
  /\ state.uiHidden
  /\ CountOf(particles, "PHOTO") = 2
  /\ time > 0

\* C16: the transition rule is applied once per input frame: at any time
\* at most one processFrame loop is running, whatever mode changes and
\* effect re-runs there were, and an effect re-run leaves no processFrame
\* loop of an earlier effect run running.
C16_OneClassifierLoop ==
  /\ [](cameras["processFrame"] <= 1)
  /\ [][useEffect => cameras'["processFrame"] = 0]_vars

\* C17: every hand frame writes handX = (center.x - 0.5) * 2 and
\* handY = (center.y - 0.5) * 2 to the state, whichever gesture branch is
\* taken, and every render tick after it rotates the root group toward the
\* handX and handY the state holds then, not toward values captured before
\* the frame arrived.
C17_RotationFollowsHand ==
  /\ [][\A frame \in HandFrames :
          processFrameApp(frame) =>
            /\ state'.handX = (frame.center[1] - 500) * 2
            /\ state'.handY = (frame.center[2] - 500) * 2]_vars
  /\ [][\A l \in DOMAIN loops :
          animate(l) => rotation' = UpdateRotation(rotation, ModeState(state))]_vars


\* C18: while no photo is uploaded the photo count n stays as it is, each
\* entry into FOCUS (a pinch from TREE or SCATTER) raises activePhotoIndex
\* by 1, and a render tick in FOCUS makes the photo of ordinal
\* activePhotoIndex mod n, in creation order, the active one: so each entry
\* moves the active photo on by one ordinal mod n, and n successive entries
\* make every photo the active one once.
C18_FocusCyclesPhotos ==
  /\ [][~handleFileUpload =>
          CountOf(particles', "PHOTO") = CountOf(particles, "PHOTO")]_vars
  /\ [][\A frame \in HandFrames :
          processFrameApp(frame) /\ state.mode # FOCUS /\ state'.mode = FOCUS =>
            state'.activePhotoIndex = state.activePhotoIndex + 1]_vars
  /\ [][\A l \in DOMAIN loops :
          animate(l) /\ loops[l].state.mode = FOCUS =>
            \A i \in DOMAIN particles :
              Enlarged(particles'[i]) <=>
                /\ particles[i].type = "PHOTO"
                /\ Ordinal(particles, i) =
                     loops[l].state.activePhotoIndex % CountOf(particles, "PHOTO")]_vars

====
